---- MODULE Spec2Model ----
(***************************************************************************)
(* Recipe organizer API: the recipe collection, the router, the request    *)
(* validator and the controller handlers (create, update, delete, fetch,   *)
(* list, search).                                                          *)
(*                                                                         *)
(* A JavaScript string is a sequence of one-character strings, so that     *)
(* trim, toLowerCase, split, parseInt and Number act on the characters.    *)
(* A document, like a request body or a query string, is a record whose    *)
(* DOMAIN holds exactly the keys that are present.                         *)
(***************************************************************************)
EXTENDS Integers, Sequences, FiniteSets, TLC

VARIABLES recipes, nextId, now, resp, reading

vars == <<recipes, nextId, now, resp, reading>>

(***************************************************************************)
(* Bounds of the model.                                                    *)
(***************************************************************************)
MaxRecipes == 2
MaxTime == 1

(***************************************************************************)
(* Sequence helpers.                                                       *)
(***************************************************************************)
Min(a, b) == IF a <= b THEN a ELSE b

Range(s) == {s[i] : i \in 1..Len(s)}

Has(r, k) == k \in DOMAIN r

Fields(r, ks) == [k \in (DOMAIN r) \cap ks |-> r[k]]

(***************************************************************************)
(* JavaScript strings.                                                     *)
(***************************************************************************)
Uppers == <<"A", "B", "C", "D", "E", "F", "G", "H", "I", "J", "K", "L", "M",
            "N", "O", "P", "Q", "R", "S", "T", "U", "V", "W", "X", "Y", "Z">>
Lowers == <<"a", "b", "c", "d", "e", "f", "g", "h", "i", "j", "k", "l", "m",
            "n", "o", "p", "q", "r", "s", "t", "u", "v", "w", "x", "y", "z">>
Digits == <<"0", "1", "2", "3", "4", "5", "6", "7", "8", "9">>

IsWs(c) == c \in {" ", "\t", "\n"}

DigitOf == [c \in Range(Digits) |-> (CHOOSE i \in 1..Len(Digits) : Digits[i] = c) - 1]

LowerOf == [c \in Range(Uppers) |-> Lowers[CHOOSE i \in 1..Len(Uppers) : Uppers[i] = c]]

IsDigit(c) == c \in DOMAIN DigitOf

DigitVal(c) == DigitOf[c]

LowerChar(c) == IF c \in DOMAIN LowerOf THEN LowerOf[c] ELSE c

\* String.prototype.toLowerCase
toLowerCase(s) == [i \in 1..Len(s) |-> LowerChar(s[i])]

RECURSIVE TrimStart(_)
TrimStart(s) ==
  IF s # <<>> /\ IsWs(Head(s)) THEN TrimStart(Tail(s)) ELSE s

RECURSIVE TrimEnd(_)
TrimEnd(s) ==
  IF s # <<>> /\ IsWs(s[Len(s)]) THEN TrimEnd(SubSeq(s, 1, Len(s) - 1)) ELSE s

\* String.prototype.trim
trim(s) == TrimEnd(TrimStart(s))

\* String.prototype.split(','): the pieces between the commas, empty ones kept
RECURSIVE SplitFrom(_, _)
SplitFrom(s, cur) ==
  IF s = <<>> THEN <<cur>>
  ELSE IF Head(s) = "," THEN <<cur>> \o SplitFrom(Tail(s), <<>>)
       ELSE SplitFrom(Tail(s), Append(cur, Head(s)))

split(s) == SplitFrom(s, <<>>)

\* case-insensitive substring test, the meaning of {$regex: p, $options: 'i'}
\* for a pattern p of letters only
Contains(s, p) ==
  \E i \in 0..(Len(s) - Len(p)) :
    toLowerCase(SubSeq(s, i + 1, i + Len(p))) = toLowerCase(p)

\* the words of a string, as the text index tokenizes on white space
RECURSIVE WordsFrom(_, _)
WordsFrom(s, cur) ==
  IF s = <<>> THEN (IF cur = <<>> THEN {} ELSE {cur})
  ELSE IF IsWs(Head(s))
       THEN (IF cur = <<>> THEN {} ELSE {cur}) \cup WordsFrom(Tail(s), <<>>)
       ELSE WordsFrom(Tail(s), Append(cur, LowerChar(Head(s))))

Words(s) == WordsFrom(s, <<>>)

(***************************************************************************)
(* JavaScript numbers: an integer, NaN or an infinity.  No string of the   *)
(* model carries a decimal point, so every finite number is an integer.    *)
(***************************************************************************)
Num(n) == [k |-> "num", v |-> n]
NaN == [k |-> "nan", v |-> 0]
Infinity == [k |-> "inf", v |-> 1]
NegInfinity == [k |-> "inf", v |-> -1]

IsNum(x) == x.k = "num"

RECURSIVE Pow10(_)
Pow10(n) == IF n = 0 THEN 1 ELSE 10 * Pow10(n - 1)

\* the value of the longest prefix of digits, and the rest of the string
RECURSIVE DigitRun(_, _, _)
DigitRun(s, acc, n) ==
  IF s # <<>> /\ IsDigit(Head(s))
  THEN DigitRun(Tail(s), 10 * acc + DigitVal(Head(s)), n + 1)
  ELSE [val |-> acc, len |-> n, rest |-> s]

\* parseInt(string): white space, an optional sign, then the leading digits;
\* whatever follows the digits is ignored, and no digit at all gives NaN
parseIntStr(s) ==
  LET t == TrimStart(s)
      neg == t # <<>> /\ Head(t) = "-"
      u == IF t # <<>> /\ Head(t) \in {"-", "+"} THEN Tail(t) ELSE t
      d == DigitRun(u, 0, 0)
  IN IF d.len = 0 THEN NaN ELSE Num(IF neg THEN 0 - d.val ELSE d.val)

\* Number(string), the coercion behind isNaN, -, *, /, < and >: the whole
\* trimmed string must be a numeral (sign, digits, optional exponent); the
\* empty string is 0
ToNumberStr(s) ==
  LET t == trim(s)
      neg == t # <<>> /\ Head(t) = "-"
      u == IF t # <<>> /\ Head(t) \in {"-", "+"} THEN Tail(t) ELSE t
      d == DigitRun(u, 0, 0)
      hasExp == d.rest # <<>> /\ d.rest[1] \in {"e", "E"}
      e == IF hasExp THEN DigitRun(Tail(d.rest), 0, 0) ELSE d
      sgn(n) == IF neg THEN 0 - n ELSE n
  IN IF t = <<>> THEN Num(0)
     ELSE IF d.len = 0 THEN NaN
     ELSE IF d.rest = <<>> THEN Num(sgn(d.val))
     ELSE IF hasExp /\ e.len > 0 /\ e.rest = <<>> THEN Num(sgn(d.val * Pow10(e.val)))
     ELSE NaN

\* a query parameter is a string when given; a destructuring default is a number
IsStr(x) == ~ Has(x, "k")

Str(s) == [s |-> s]

parseInt(x) == IF IsStr(x) THEN parseIntStr(x.s) ELSE x

ToNumber(x) == IF IsStr(x) THEN ToNumberStr(x.s) ELSE x

isNaN(x) == ToNumber(x) = NaN

\* truthiness of a string or a number
Truthy(x) == IF IsStr(x) THEN x.s # <<>> ELSE (x.k = "inf" \/ (x.k = "num" /\ x.v # 0))

JsSub(a, b) ==
  IF a.k = "nan" \/ b.k = "nan" THEN NaN
  ELSE IF a.k = "inf" THEN a
  ELSE Num(a.v - b.v)

Sign(n) == IF n > 0 THEN 1 ELSE IF n < 0 THEN -1 ELSE 0

JsMul(a, b) ==
  IF a.k = "nan" \/ b.k = "nan" THEN NaN
  ELSE IF a.k = "inf" \/ b.k = "inf"
       THEN (IF Sign(a.v) * Sign(b.v) = 0 THEN NaN
             ELSE IF Sign(a.v) * Sign(b.v) > 0 THEN Infinity ELSE NegInfinity)
  ELSE Num(a.v * b.v)

\* ceil(a / b) of two integers, b # 0
CeilDiv(a, b) ==
  IF b > 0 THEN 0 - ((0 - a) \div b) ELSE 0 - (a \div (0 - b))

\* Math.ceil(a / b); a is a count, so finite and >= 0
JsCeilDiv(a, b) ==
  IF b.k = "nan" THEN NaN
  ELSE IF b.k = "inf" THEN Num(0)
  ELSE IF b.v = 0 THEN (IF a.v = 0 THEN NaN ELSE Infinity)
  ELSE Num(CeilDiv(a.v, b.v))

JsLt(a, b) ==
  IF a.k = "nan" \/ b.k = "nan" THEN FALSE
  ELSE IF a.k = "inf" THEN a.v < 0 /\ b # a
  ELSE IF b.k = "inf" THEN b.v > 0
  ELSE a.v < b.v

JsGt(a, b) == JsLt(b, a)

(***************************************************************************)
(* Request validation: middleware/validation.js.                          *)
(***************************************************************************)
TitleMin == 3
TitleMax == 100
InstructionsMin == 10
InstructionsMax == 2000
Difficulties == {"easy", "medium", "hard"}

\* what a string validator sees of a field: the trimmed value, '' when absent
Sanitized(body, f) == IF Has(body, f) THEN trim(body[f]) ELSE <<>>

\* isLength({min, max})
isLength(s, lo, hi) == Len(s) >= lo /\ Len(s) <= hi

\* isArray({min}); a field of the body that holds a list is a sequence
isArray(body, f, lo) == Has(body, f) /\ Len(body[f]) >= lo

\* the custom rule on ingredients: every entry non-empty once trimmed
\* (an absent list makes the rule throw, which is an error as well)
AllNonEmpty(body, f) ==
  Has(body, f) /\ \A i \in 1..Len(body[f]) : Len(trim(body[f][i])) > 0

\* isInt({min: 1}) on an optional field
isIntMin(body, f, lo) == ~ Has(body, f) \/ body[f] >= lo

\* the chain of validateRecipe: one error per failing rule, in rule order
validateRecipe(body) ==
  (IF Len(Sanitized(body, "title")) = 0 THEN <<"title">> ELSE <<>>)
  \o (IF ~ isLength(Sanitized(body, "title"), TitleMin, TitleMax)
      THEN <<"title">> ELSE <<>>)
  \o (IF ~ isArray(body, "ingredients", 1) THEN <<"ingredients">> ELSE <<>>)
  \o (IF ~ AllNonEmpty(body, "ingredients") THEN <<"ingredients">> ELSE <<>>)
  \o (IF Len(Sanitized(body, "instructions")) = 0 THEN <<"instructions">> ELSE <<>>)
  \o (IF ~ isLength(Sanitized(body, "instructions"), InstructionsMin, InstructionsMax)
      THEN <<"instructions">> ELSE <<>>)
  \o (IF ~ isIntMin(body, "cookingTime", 1) THEN <<"cookingTime">> ELSE <<>>)
  \o (IF ~ isIntMin(body, "servings", 1) THEN <<"servings">> ELSE <<>>)
  \o (IF Has(body, "difficulty") /\ body.difficulty \notin Difficulties
      THEN <<"difficulty">> ELSE <<>>)
  \o (IF Has(body, "tags") /\ ~ isArray(body, "tags", 0) THEN <<"tags">> ELSE <<>>)

\* the body the handler receives: the trim() sanitizers have rewritten
\* title and instructions
SanitizeBody(body) ==
  [f \in DOMAIN body |->
     IF f \in {"title", "instructions"} THEN trim(body[f]) ELSE body[f]]

(***************************************************************************)
(* Normalization of the list fields, as both write handlers do it.         *)
(***************************************************************************)
RECURSIVE DropEmpty(_)
DropEmpty(list) ==
  IF list = <<>> THEN <<>>
  ELSE IF Head(list) # <<>> /\ Len(trim(Head(list))) > 0
       THEN <<Head(list)>> \o DropEmpty(Tail(list))
       ELSE DropEmpty(Tail(list))

CleanIngredients(list) ==
  LET kept == DropEmpty(list) IN [i \in 1..Len(kept) |-> trim(kept[i])]

CleanTagsMutant(list) ==
  LET kept == DropEmpty(list) IN [i \in 1..Len(kept) |-> trim(kept[i])]

CleanTags(list) ==
  LET kept == DropEmpty(list) IN [i \in 1..Len(kept) |-> toLowerCase(trim(kept[i]))]

CleanBody(body) ==
  [f \in DOMAIN body |->
     IF f = "ingredients" THEN CleanIngredients(body[f])
     ELSE IF f = "tags" THEN CleanTags(body[f])
     ELSE body[f]]

(***************************************************************************)
(* The schema: models/recipe.js.                                           *)
(***************************************************************************)
SchemaPaths == {"title", "ingredients", "instructions", "cookingTime", "servings",
                "difficulty", "tags", "createdAt", "updatedAt"}

\* the setters of the schema: trim on title, instructions and on every entry
\* of ingredients and tags; paths outside the schema are dropped
CastToSchema(body) ==
  [f \in (DOMAIN body) \cap SchemaPaths |->
     IF f \in {"title", "instructions"} THEN trim(body[f])
     ELSE IF f \in {"ingredients", "tags"}
          THEN [i \in 1..Len(body[f]) |-> trim(body[f][i])]
     ELSE body[f]]

\* a new document: the given paths over the defaults, Date.now() read at t
NewDocument(body, t) ==
  CastToSchema(body) @@
  [ingredients |-> <<>>, difficulty |-> "medium", tags |-> <<>>,
   createdAt |-> t, updatedAt |-> t]

\* the pre('save') hook
PreSave(doc, t) == [doc EXCEPT !.updatedAt = t]

\* the update document of findByIdAndUpdate: the body, then updatedAt
UpdateDocument(body, t) == [updatedAt |-> t] @@ body

\* $set of every path of the update on the stored document
ApplyUpdate(doc, update) == CastToSchema(update) @@ doc

(***************************************************************************)
(* The router: routes/recipes.js, mounted on /api/recipes, then the 404    *)
(* handler of server.js.  A path is the segment after /api/recipes: a      *)
(* literal ([lit |-> "search"], [lit |-> ""] for the root) or a string     *)
(* that casts to an ObjectId ([oid |-> n]).                                *)
(***************************************************************************)
Root == [lit |-> ""]
Lit(s) == [lit |-> s]
Oid(n) == [oid |-> n]

IsObjectId(seg) == Has(seg, "oid")

Route(method, seg) ==
  IF method = "GET" /\ seg = Lit("search") THEN "searchRecipes"
  ELSE IF seg = Root
       THEN (IF method = "GET" THEN "getAllRecipes"
             ELSE IF method = "POST" THEN "createRecipe"
             ELSE "notFound")
  ELSE IF method = "GET" THEN "getRecipe"
  ELSE IF method = "PUT" THEN "updateRecipe"
  ELSE IF method = "DELETE" THEN "deleteRecipe"
  ELSE "notFound"

\* the document as the response carries it
WithId(id, doc) == [_id |-> id] @@ doc

(***************************************************************************)
(* The write handlers and the fetch-one handler.                           *)
(***************************************************************************)
\* POST /api/recipes
createRecipe(body) ==
  /\ Route("POST", Root) = "createRecipe"
  /\ UNCHANGED reading
  /\ LET errors == validateRecipe(body) IN
     IF errors # <<>>
     THEN /\ resp' = [op |-> "createRecipe", method |-> "POST", seg |-> Root,
                      status |-> 400, body |-> body, errors |-> errors]
          /\ UNCHANGED <<recipes, nextId, now>>
     ELSE /\ nextId <= MaxRecipes
          /\ \E t1 \in now..MaxTime : \E t2 \in t1..MaxTime :
               LET doc == PreSave(NewDocument(CleanBody(SanitizeBody(body)), t1), t2) IN
               /\ recipes' = (nextId :> doc) @@ recipes
               /\ nextId' = nextId + 1
               /\ now' = t2
               /\ resp' = [op |-> "createRecipe", method |-> "POST", seg |-> Root,
                           status |-> 201, body |-> body, data |-> WithId(nextId, doc)]

\* PUT /api/recipes/:id
updateRecipe(seg, body) ==
  /\ Route("PUT", seg) = "updateRecipe"
  /\ UNCHANGED reading
  /\ LET errors == validateRecipe(body)
         out(status) == [op |-> "updateRecipe", method |-> "PUT", seg |-> seg,
                         status |-> status, body |-> body]
     IN
     IF errors # <<>>
     THEN /\ resp' = out(400) @@ [errors |-> errors]
          /\ UNCHANGED <<recipes, nextId, now>>
     ELSE \E t \in now..MaxTime :
       /\ now' = t
       /\ UNCHANGED nextId
       /\ IF ~ IsObjectId(seg)
          THEN /\ resp' = out(400)
               /\ UNCHANGED recipes
          ELSE IF seg.oid \notin DOMAIN recipes
          THEN /\ resp' = out(404)
               /\ UNCHANGED recipes
          ELSE LET doc == ApplyUpdate(recipes[seg.oid],
                                      UpdateDocument(CleanBody(SanitizeBody(body)), t)) IN
               /\ recipes' = [recipes EXCEPT ![seg.oid] = doc]
               /\ resp' = out(200) @@ [data |-> WithId(seg.oid, doc)]

deleteRecipeMutant(seg) ==
  /\ Route("DELETE", seg) = "deleteRecipe"
  /\ UNCHANGED reading
  /\ UNCHANGED <<nextId, now>>
  /\ LET out(status) == [op |-> "deleteRecipe", method |-> "DELETE", seg |-> seg,
                         status |-> status]
     IN
     IF ~ IsObjectId(seg)
     THEN /\ resp' = out(400)
          /\ UNCHANGED recipes
     ELSE IF seg.oid \notin DOMAIN recipes
     THEN /\ resp' = out(404)
          /\ UNCHANGED recipes
     ELSE /\ UNCHANGED recipes
          /\ resp' = out(200) @@
                     [data |-> [id |-> seg.oid, title |-> recipes[seg.oid].title]]

\* DELETE /api/recipes/:id
deleteRecipe(seg) ==
  /\ Route("DELETE", seg) = "deleteRecipe"
  /\ UNCHANGED reading
  /\ UNCHANGED <<nextId, now>>
  /\ LET out(status) == [op |-> "deleteRecipe", method |-> "DELETE", seg |-> seg,
                         status |-> status]
     IN
     IF ~ IsObjectId(seg)
     THEN /\ resp' = out(400)
          /\ UNCHANGED recipes
     ELSE IF seg.oid \notin DOMAIN recipes
     THEN /\ resp' = out(404)
          /\ UNCHANGED recipes
     ELSE /\ recipes' = [i \in (DOMAIN recipes) \ {seg.oid} |-> recipes[i]]
          /\ resp' = out(200) @@
                     [data |-> [id |-> seg.oid, title |-> recipes[seg.oid].title]]

\* GET /api/recipes/:id
getRecipe(seg) ==
  /\ Route("GET", seg) = "getRecipe"
  /\ UNCHANGED reading
  /\ UNCHANGED <<recipes, nextId, now>>
  /\ LET out(status) == [op |-> "getRecipe", method |-> "GET", seg |-> seg,
                         status |-> status]
     IN
     IF ~ IsObjectId(seg) THEN resp' = out(400)
     ELSE IF seg.oid \notin DOMAIN recipes THEN resp' = out(404)
     ELSE resp' = out(200) @@ [data |-> WithId(seg.oid, recipes[seg.oid])]

\* the 404 handler of server.js, for a request no route takes
notFound(method, seg) ==
  /\ Route(method, seg) = "notFound"
  /\ UNCHANGED reading
  /\ UNCHANGED <<recipes, nextId, now>>
  /\ resp' = [op |-> "notFound", method |-> method, seg |-> seg, status |-> 404]

(***************************************************************************)
(* The collection as the read handlers query it.  A filter is a record of  *)
(* the clauses that were added; all of them must hold of a document.       *)
(***************************************************************************)
InAnyMutant(field, list) == \A i \in 1..Len(list) : list[i] \in Range(field)

\* {$in: list} on a list field: some entry of the field is in the list
InAny(field, list) == \E i \in 1..Len(field) : field[i] \in Range(list)

\* the words the text index holds of a document
DocWords(doc) ==
  Words(doc.title) \cup Words(doc.instructions)
    \cup UNION {Words(doc.ingredients[i]) : i \in 1..Len(doc.ingredients)}

Lte(doc, f, n) == Has(doc, f) /\ doc[f] <= n

Gte(doc, f, n) == Has(doc, f) /\ doc[f] >= n

Matches(doc, filter) ==
  /\ Has(filter, "text") => Words(filter.text) \cap DocWords(doc) # {}
  /\ Has(filter, "ingredients") =>
       \E i \in 1..Len(doc.ingredients) : Contains(doc.ingredients[i], filter.ingredients)
  /\ Has(filter, "difficulty") => doc.difficulty = filter.difficulty
  /\ Has(filter, "tags") => InAny(doc.tags, filter.tags)
  /\ Has(filter, "cookingTime") => Lte(doc, "cookingTime", filter.cookingTime.v)
  /\ Has(filter, "servings") => Gte(doc, "servings", filter.servings.v)

Matching(filter) == {id \in DOMAIN recipes : Matches(recipes[id], filter)}

\* a clause whose bound is NaN cannot be cast to the Number of the schema
FilterCasts(filter) ==
  /\ Has(filter, "cookingTime") => IsNum(filter.cookingTime)
  /\ Has(filter, "servings") => IsNum(filter.servings)

\* the orders sort() may give the matching documents: creation time
\* descending, documents of equal creation time in either order; by text
\* score first when the query has a text clause (the score is the store's)
Orders(ids, byScore) ==
  {o \in [1..Cardinality(ids) -> ids] :
     /\ \A i, j \in 1..Cardinality(ids) : i # j => o[i] # o[j]
     /\ byScore \/ \A i, j \in 1..Cardinality(ids) :
          i < j => recipes[o[i]].createdAt >= recipes[o[j]].createdAt}

\* skip(n).limit(m) on an ordered result: a limit of 0 is no limit, a
\* negative limit is taken by its absolute value
Window(o, skip, limit) ==
  LET take == IF limit = 0 THEN Len(o) ELSE IF limit < 0 THEN 0 - limit ELSE limit
  IN [i \in 1..Min(take, IF Len(o) > skip THEN Len(o) - skip ELSE 0) |->
        WithId(o[i + skip], recipes[o[i + skip]])]

\* the store rejects a skip that is negative or NaN, and a limit that is NaN
WindowOk(skip, limit) == IsNum(skip) /\ skip.v >= 0 /\ IsNum(limit)

\* Recipe.countDocuments(filter)
countDocuments(filter) == Cardinality(Matching(filter))

\* a number as JSON carries it: NaN and the infinities become null
Null == [k |-> "null", v |-> 0]

Json(x) == IF IsNum(x) THEN x ELSE Null

\* x || null on a query parameter: the key is there when the string is non-empty
Echo(query, f, as) == IF Has(query, f) /\ query[f] # <<>> THEN as :> query[f] ELSE << >>

(***************************************************************************)
(* The read handlers.                                                      *)
(***************************************************************************)
DefaultPage == 1
DefaultLimit == 10

\* parseInt(req.query.f) || d
ParseOr(query, f, d) ==
  LET n == IF Has(query, f) THEN parseIntStr(query[f]) ELSE NaN
  IN IF Truthy(n) THEN n ELSE Num(d)

\* the filter of the list endpoint
ListFilter(query) ==
  (IF Has(query, "difficulty") /\ query.difficulty # ""
   THEN [difficulty |-> query.difficulty] ELSE << >>)
  @@ (IF Has(query, "tags") /\ query.tags # <<>>
      THEN [tags |-> split(query.tags)] ELSE << >>)

\* GET /api/recipes
\* (a singleton \E binds a value that is computed once)
getAllRecipes(query) ==
  /\ Route("GET", Root) = "getAllRecipes"
  /\ UNCHANGED reading
  /\ UNCHANGED <<recipes, nextId, now>>
  /\ \E page \in {ParseOr(query, "page", DefaultPage)},
        limit \in {ParseOr(query, "limit", DefaultLimit)},
        filter \in {ListFilter(query)} :
     \E skip \in {JsMul(JsSub(page, Num(1)), limit)}, ids \in {Matching(filter)} :
     LET out(status) == [op |-> "getAllRecipes", method |-> "GET", seg |-> Root,
                         status |-> status, query |-> query]
     IN
     IF ~ WindowOk(skip, limit)
     THEN resp' = out(500)
     ELSE \E o \in Orders(ids, FALSE) :
       \E data \in {Window(o, skip.v, limit.v)}, total \in {countDocuments(filter)} :
       \E totalPages \in {JsCeilDiv(Num(total), limit)} :
          resp' = out(200) @@
            [count |-> Len(data),
             pagination |-> [currentPage |-> Json(page), totalPages |-> Json(totalPages),
                             limit |-> Json(limit), total |-> Num(total),
                             hasNext |-> JsLt(page, totalPages),
                             hasPrev |-> JsGt(page, Num(1))],
             data |-> data,
             skip |-> skip, filter |-> filter]

\* a query parameter of the search endpoint, or its destructuring default
Param(query, f, d) == IF Has(query, f) THEN Str(query[f]) ELSE Num(d)

\* the tag list of the search endpoint
SearchTags(tags) ==
  LET parts == split(tags) IN [i \in 1..Len(parts) |-> toLowerCase(trim(parts[i]))]

\* the query object of the search endpoint
SearchFilter(query) ==
  (IF Has(query, "q") /\ query.q # <<>> THEN [text |-> query.q] ELSE << >>)
  @@ (IF Has(query, "ingredient") /\ query.ingredient # <<>>
      THEN [ingredients |-> query.ingredient] ELSE << >>)
  @@ (IF Has(query, "difficulty") /\ query.difficulty # ""
         /\ query.difficulty \in Difficulties
      THEN [difficulty |-> query.difficulty] ELSE << >>)
  @@ (IF Has(query, "tags") /\ query.tags # <<>>
      THEN [tags |-> SearchTags(query.tags)] ELSE << >>)
  @@ (IF Has(query, "cookingTimeMax") /\ query.cookingTimeMax # <<>>
         /\ ~ isNaN(Str(query.cookingTimeMax))
      THEN [cookingTime |-> parseIntStr(query.cookingTimeMax)] ELSE << >>)
  @@ (IF Has(query, "servingsMin") /\ query.servingsMin # <<>>
         /\ ~ isNaN(Str(query.servingsMin))
      THEN [servings |-> parseIntStr(query.servingsMin)] ELSE << >>)

SearchEchoMutant(query) ==
  Echo(query, "q", "textSearch") @@ Echo(query, "ingredient", "ingredient")
  @@ (IF Has(query, "difficulty") /\ query.difficulty \in Difficulties
      THEN [difficulty |-> query.difficulty] ELSE << >>)
  @@ Echo(query, "tags", "tags") @@ Echo(query, "cookingTimeMax", "cookingTimeMax")
  @@ Echo(query, "servingsMin", "servingsMin")

\* the searchQuery block of the response
SearchEcho(query) ==
  Echo(query, "q", "textSearch") @@ Echo(query, "ingredient", "ingredient")
  @@ (IF Has(query, "difficulty") /\ query.difficulty # ""
      THEN [difficulty |-> query.difficulty] ELSE << >>)
  @@ Echo(query, "tags", "tags") @@ Echo(query, "cookingTimeMax", "cookingTimeMax")
  @@ Echo(query, "servingsMin", "servingsMin")

\* GET /api/recipes/search
searchRecipes(query) ==
  /\ Route("GET", Lit("search")) = "searchRecipes"
  /\ UNCHANGED reading
  /\ UNCHANGED <<recipes, nextId, now>>
  /\ \E page \in {Param(query, "page", DefaultPage)},
        limit \in {Param(query, "limit", DefaultLimit)},
        filter \in {SearchFilter(query)} :
     \E skip \in {JsMul(JsSub(ToNumber(page), Num(1)), ToNumber(limit))},
        ids \in {IF FilterCasts(filter) THEN Matching(filter) ELSE {}} :
     LET out(status) == [op |-> "searchRecipes", method |-> "GET", seg |-> Lit("search"),
                         status |-> status, query |-> query]
     IN
     IF ~ (FilterCasts(filter) /\ WindowOk(skip, parseInt(limit)))
     THEN resp' = out(500)
     ELSE \E o \in Orders(ids, Has(filter, "text")) :
       \E data \in {Window(o, skip.v, parseInt(limit).v)},
          total \in {countDocuments(filter)} :
       \E totalPages \in {JsCeilDiv(Num(total), ToNumber(limit))} :
          resp' = out(200) @@
            [count |-> Len(data),
             searchQuery |-> SearchEcho(query),
             pagination |-> [currentPage |-> Json(parseInt(page)),
                             totalPages |-> Json(totalPages),
                             limit |-> Json(parseInt(limit)), total |-> Num(total),
                             hasNext |-> JsLt(ToNumber(page), totalPages),
                             hasPrev |-> JsGt(ToNumber(page), Num(1))],
             data |-> data,
             skip |-> skip, filter |-> filter]

(***************************************************************************)
(* The read handlers step by step.  Each of them awaits Recipe.find and    *)
(* then awaits Recipe.countDocuments, so other requests can be served      *)
(* between the two queries.  reading holds the request that has its page   *)
(* and waits for its count; one read request is in flight at a time.       *)
(***************************************************************************)
NoRead == [op |-> "none"]

\* GET /api/recipes up to the page that find() returns
getAllRecipesFind(query) ==
  /\ Route("GET", Root) = "getAllRecipes"
  /\ reading = NoRead
  /\ UNCHANGED <<recipes, nextId, now>>
  /\ \E page \in {ParseOr(query, "page", DefaultPage)},
        limit \in {ParseOr(query, "limit", DefaultLimit)},
        filter \in {ListFilter(query)} :
     \E skip \in {JsMul(JsSub(page, Num(1)), limit)}, ids \in {Matching(filter)} :
     IF ~ WindowOk(skip, limit)
     THEN /\ resp' = [op |-> "getAllRecipes", method |-> "GET", seg |-> Root,
                      status |-> 500, query |-> query]
          /\ UNCHANGED reading
     ELSE \E o \in Orders(ids, FALSE) :
          /\ reading' = [op |-> "getAllRecipes", query |-> query, page |-> page,
                         limit |-> limit, skip |-> skip, filter |-> filter,
                         data |-> Window(o, skip.v, limit.v)]
          /\ UNCHANGED resp

\* GET /api/recipes from countDocuments() to the response
getAllRecipesCount ==
  /\ reading.op = "getAllRecipes"
  /\ UNCHANGED <<recipes, nextId, now>>
  /\ reading' = NoRead
  /\ \E total \in {countDocuments(reading.filter)} :
     \E totalPages \in {JsCeilDiv(Num(total), reading.limit)} :
       resp' = [op |-> "getAllRecipes", method |-> "GET", seg |-> Root,
                status |-> 200, query |-> reading.query,
                count |-> Len(reading.data),
                pagination |-> [currentPage |-> Json(reading.page),
                                totalPages |-> Json(totalPages),
                                limit |-> Json(reading.limit), total |-> Num(total),
                                hasNext |-> JsLt(reading.page, totalPages),
                                hasPrev |-> JsGt(reading.page, Num(1))],
                data |-> reading.data,
                skip |-> reading.skip, filter |-> reading.filter]

\* GET /api/recipes/search up to the page that find() returns
searchRecipesFind(query) ==
  /\ Route("GET", Lit("search")) = "searchRecipes"
  /\ reading = NoRead
  /\ UNCHANGED <<recipes, nextId, now>>
  /\ \E page \in {Param(query, "page", DefaultPage)},
        limit \in {Param(query, "limit", DefaultLimit)},
        filter \in {SearchFilter(query)} :
     \E skip \in {JsMul(JsSub(ToNumber(page), Num(1)), ToNumber(limit))},
        ids \in {IF FilterCasts(filter) THEN Matching(filter) ELSE {}} :
     IF ~ (FilterCasts(filter) /\ WindowOk(skip, parseInt(limit)))
     THEN /\ resp' = [op |-> "searchRecipes", method |-> "GET", seg |-> Lit("search"),
                      status |-> 500, query |-> query]
          /\ UNCHANGED reading
     ELSE \E o \in Orders(ids, Has(filter, "text")) :
          /\ reading' = [op |-> "searchRecipes", query |-> query, page |-> page,
                         limit |-> limit, skip |-> skip, filter |-> filter,
                         data |-> Window(o, skip.v, parseInt(limit).v)]
          /\ UNCHANGED resp

\* GET /api/recipes/search from countDocuments() to the response
searchRecipesCount ==
  /\ reading.op = "searchRecipes"
  /\ UNCHANGED <<recipes, nextId, now>>
  /\ reading' = NoRead
  /\ \E total \in {countDocuments(reading.filter)} :
     \E totalPages \in {JsCeilDiv(Num(total), ToNumber(reading.limit))} :
       resp' = [op |-> "searchRecipes", method |-> "GET", seg |-> Lit("search"),
                status |-> 200, query |-> reading.query,
                count |-> Len(reading.data),
                searchQuery |-> SearchEcho(reading.query),
                pagination |-> [currentPage |-> Json(parseInt(reading.page)),
                                totalPages |-> Json(totalPages),
                                limit |-> Json(parseInt(reading.limit)),
                                total |-> Num(total),
                                hasNext |-> JsLt(ToNumber(reading.page), totalPages),
                                hasPrev |-> JsGt(ToNumber(reading.page), Num(1))],
                data |-> reading.data,
                skip |-> reading.skip, filter |-> reading.filter]

(***************************************************************************)
(* Requests.                                                               *)
(***************************************************************************)
Pie == <<"P", "i", "e">>
Tea == <<"T", "e", "a">>
MixAndBake == <<"m", "i", "x", " ", "a", "n", "d", " ", "b", "a", "k", "e">>
Salt == <<"s", "a", "l", "t">>
Egg == <<"e", "g", "g">>
Vegan == <<"v", "e", "g", "a", "n">>
Quick == <<"q", "u", "i", "c", "k">>
Spicy == <<"s", "p", "i", "c", "y">>

\* a date a client may send: later than any reading of the server's clock
ClientDate == MaxTime + 1

BaseBody == [title |-> Pie, ingredients |-> <<Salt>>, instructions |-> MixAndBake]

\* the bodies of the write requests: complete and partial ones, list fields
\* with blank and padded entries, rule violations, client-sent timestamps
Bodies ==
  { BaseBody,
    [title |-> <<" ">> \o Tea, ingredients |-> <<<<" ">> \o Egg \o <<" ">>, Salt>>,
     instructions |-> MixAndBake, cookingTime |-> 5, servings |-> 2,
     difficulty |-> "hard",
     tags |-> <<<<" ", "V">> \o Tail(Vegan) \o <<" ">>, <<>>, <<" ">>, Quick>>],
    [servings |-> 4],
    [ingredients |-> <<<<>>, <<" ", " ">>, Salt>>] @@ BaseBody,
    [difficulty |-> "extreme"] @@ BaseBody,
    [title |-> <<"a", "b">>, servings |-> 0] @@ BaseBody,
    [createdAt |-> ClientDate, updatedAt |-> 0] @@ BaseBody }

\* path segments: the identifiers the store can assign, one it never
\* assigns, and literals
Segs == {Oid(n) : n \in 1..(MaxRecipes + 1)} \cup {Lit("search"), Lit("stats")}

Methods == {"GET", "POST", "PUT", "DELETE"}

NoQuery == << >>

\* the bodies of the write requests under the read handlers: two complete
\* recipes, the second without a cooking time
QueryBodies ==
  { [cookingTime |-> 5, servings |-> 2, difficulty |-> "easy",
     tags |-> <<Vegan, Quick>>] @@ BaseBody,
    [title |-> Tea, ingredients |-> <<Egg>>, instructions |-> MixAndBake,
     servings |-> 4, difficulty |-> "hard", tags |-> <<Spicy>>] }

StoredSegs == {Oid(n) : n \in 1..MaxRecipes}

\* every record over the given choices; Absent leaves the key out
Absent == <<"absent">>

Choices(options) ==
  {[f \in {g \in DOMAIN c : c[g] # Absent} |-> c[f]] :
     c \in [DOMAIN options -> UNION {options[g] : g \in DOMAIN options}] \cap
           {c \in [DOMAIN options -> UNION {options[g] : g \in DOMAIN options}] :
              \A g \in DOMAIN options : c[g] \in options[g]}}

\* query strings of the list endpoint: the paging parameters, then the filters
ListQueries ==
  Choices([page |-> {Absent, <<"0">>, <<"-", "1">>, <<"2">>, <<"a">>},
           limit |-> {Absent, <<"-", "1">>, <<"1">>, <<"a">>}])
  \cup
  { d @@ t : d \in {<< >>, [difficulty |-> "easy"], [difficulty |-> "extreme"]},
             t \in Choices([tags |-> {Absent, Quick \o <<",">> \o Spicy,
                                      <<"Q">> \o Tail(Quick)}]) }

\* query strings of the search endpoint: the paging parameters, the tag and
\* range filters, the text, ingredient and difficulty filters
SearchQueries ==
  Choices([page |-> {Absent, <<"2">>, <<"a">>},
           limit |-> {Absent, <<"0">>, <<"1">>, <<"1", "e", "1">>}])
  \cup
  Choices([tags |-> {Absent, <<"Q">> \o Tail(Quick) \o <<",", " ">> \o Spicy \o <<" ">>},
           cookingTimeMax |-> {Absent, <<"5">>, <<"1", "e", "1">>, <<"a">>},
           servingsMin |-> {Absent, <<"3">>, <<"3", "x">>}])
  \cup
  { d @@ t : d \in {<< >>, [difficulty |-> "easy"], [difficulty |-> "extreme"]},
             t \in Choices([q |-> {Absent, <<"S">> \o Tail(Salt)},
                            ingredient |-> {Absent, <<"A", "l">>}]) }

Init ==
  /\ recipes = << >>
  /\ nextId = 1
  /\ now = 0
  /\ resp = [op |-> "none", method |-> "", seg |-> Root, status |-> 0]
  /\ reading = NoRead

Next ==
  \/ \E body \in Bodies : createRecipe(body)
  \/ \E seg \in Segs, body \in Bodies : updateRecipe(seg, body)
  \/ \E seg \in Segs : deleteRecipe(seg)
  \/ \E seg \in Segs : getRecipe(seg)
  \/ \E method \in Methods, seg \in Segs \cup {Root} : notFound(method, seg)
  \/ getAllRecipes(NoQuery)
  \/ searchRecipes(NoQuery)

Spec == Init /\ [][Next]_vars

\* the write handlers under the full query strings of the read handlers
NextQuery ==
  \/ \E body \in QueryBodies : createRecipe(body)
  \/ \E seg \in StoredSegs, body \in QueryBodies : updateRecipe(seg, body)
  \/ \E seg \in StoredSegs : deleteRecipe(seg)
  \/ \E query \in ListQueries : getAllRecipes(query)
  \/ \E query \in SearchQueries : searchRecipes(query)

SpecQuery == Init /\ [][NextQuery]_vars

\* query strings of the read handlers while writes are served: the first
\* page, pages of one record, a tag filter, a failing page
ConcurrentQueries ==
  { NoQuery,
    [limit |-> <<"1">>],
    [page |-> <<"2">>, limit |-> <<"1">>],
    [tags |-> Quick],
    [page |-> <<"-", "1">>] }

\* the write handlers served between the two queries of a read handler
NextConcurrent ==
  \/ \E body \in QueryBodies : createRecipe(body)
  \/ \E seg \in StoredSegs, body \in QueryBodies : updateRecipe(seg, body)
  \/ \E seg \in StoredSegs : deleteRecipe(seg)
  \/ \E query \in ConcurrentQueries : getAllRecipesFind(query)
  \/ getAllRecipesCount
  \/ \E query \in ConcurrentQueries : searchRecipesFind(query)
  \/ searchRecipesCount

SpecConcurrent == Init /\ [][NextConcurrent]_vars

(***************************************************************************)
(* Properties of the write handlers and of the router.                     *)
(***************************************************************************)
NonBlank(entry) == trim(entry) # <<>>

\* the trimmed non-empty entries of a list, in their order
TrimmedNonBlank(list) ==
  LET kept == SelectSeq(list, NonBlank) IN [i \in 1..Len(kept) |-> trim(kept[i])]

\* every rule that fails on the body is about a field the body omits
PresentFieldsValid(body) ==
  \A i \in 1..Len(validateRecipe(body)) : ~ Has(body, validateRecipe(body)[i])

\* the step is the answer to an update request that addresses a stored record
IsUpdateOfStored ==
  /\ resp'.op = "updateRecipe"
  /\ IsObjectId(resp'.seg)
  /\ resp'.seg.oid \in DOMAIN recipes

\* C1: an update of a stored record whose body carries only some of the
\* fields, each of them valid, succeeds, replaces exactly the fields of the
\* body, leaves every omitted field as stored and does not move updatedAt
\* backwards.
C1_PartialUpdateMerges ==
  [][(IsUpdateOfStored /\ PresentFieldsValid(resp'.body)) =>
       LET id == resp'.seg.oid
           old == recipes[id]
           new == recipes'[id]
           sent == (DOMAIN resp'.body) \cap (SchemaPaths \ {"updatedAt"})
       IN /\ resp'.status = 200
          /\ DOMAIN new = (DOMAIN old) \cup sent
          /\ \A f \in (DOMAIN old) \ (sent \cup {"updatedAt"}) : new[f] = old[f]
          /\ \A f \in sent \ {"ingredients", "tags", "title", "instructions"} :
               new[f] = resp'.body[f]
          /\ new.updatedAt >= old.updatedAt]_vars

\* the ingredients of a body hold a blank entry and a non-blank one, and the
\* body passes every rule once the blank entries are taken out
MixedIngredients(body) ==
  /\ Has(body, "ingredients")
  /\ \E i \in 1..Len(body.ingredients) : ~ NonBlank(body.ingredients[i])
  /\ \E i \in 1..Len(body.ingredients) : NonBlank(body.ingredients[i])
  /\ validateRecipe([body EXCEPT !.ingredients = TrimmedNonBlank(body.ingredients)]) = <<>>

\* C2: a create request whose ingredients mix blank entries with a non-blank
\* one is admitted, and the stored ingredients are the trimmed non-blank
\* entries in their order.
C2_BlankIngredientsDropped ==
  (resp.op = "createRecipe" /\ MixedIngredients(resp.body)) =>
     /\ resp.status = 201
     /\ resp.data.ingredients = TrimmedNonBlank(resp.body.ingredients)

C4_CreatedAtFixedAndNotAfterUpdatedAt ==
  /\ [](\A id \in DOMAIN recipes : recipes[id].updatedAt >= recipes[id].createdAt)
  /\ [][\A id \in (DOMAIN recipes) \cap (DOMAIN recipes') :
          recipes'[id].createdAt = recipes[id].createdAt]_vars

\* C10: GET /recipes/stats is answered by the statistics handler and GET
\* /recipes/search by the search handler; the fetch-one handler never takes
\* either segment as an identifier.
C10_StatsAndSearchRouted ==
  /\ (resp.method = "GET" /\ resp.seg = Lit("stats")) => resp.op = "getRecipeStats"
  /\ (resp.method = "GET" /\ resp.seg = Lit("search")) => resp.op = "searchRecipes"
  /\ resp.op = "getRecipe" => resp.seg \notin {Lit("stats"), Lit("search")}

\* the step is the answer to a delete request for a well-formed identifier
IsDeleteOfId ==
  /\ resp'.op = "deleteRecipe"
  /\ IsObjectId(resp'.seg)

\* the identifier was assigned to a record that a delete has removed since:
\* identifiers are assigned in order and only a delete removes a record
WasDeleted(id) == id < nextId /\ id \notin DOMAIN recipes

\* C11: a delete request for a well-formed identifier that addresses no
\* record, never assigned or already deleted, answers 404 and leaves the
\* collection unchanged; a delete that addresses a stored record answers 200
\* with the id and the title of that record and removes just that record, and
\* no request other than a create adds a record, so that a second delete of
\* the same identifier finds no record and answers 404.
C11_DeleteTwiceNotFound ==
  [][/\ IsDeleteOfId =>
          LET id == resp'.seg.oid IN
          IF id \in DOMAIN recipes
          THEN /\ resp'.status = 200
               /\ resp'.data = [id |-> id, title |-> recipes[id].title]
               /\ DOMAIN recipes' = (DOMAIN recipes) \ {id}
               /\ \A i \in DOMAIN recipes' : recipes'[i] = recipes[i]
               /\ id < nextId'
          ELSE /\ resp'.status = 404
               /\ recipes' = recipes
     /\ resp'.op # "createRecipe" => (DOMAIN recipes') \subseteq DOMAIN recipes
     /\ \A id \in 1..MaxRecipes : WasDeleted(id) => WasDeleted(id)']_vars

\* a second delete of an identifier has answered 404 while another record
\* is stored
C11_Witness ==
  /\ resp.op = "deleteRecipe"
  /\ resp.status = 404
  /\ IsObjectId(resp.seg)
  /\ WasDeleted(resp.seg.oid)
  /\ recipes # << >>

(***************************************************************************)
(* Properties of the read handlers.                                        *)
(***************************************************************************)
IsReadSuccess ==
  resp.op \in {"getAllRecipes", "searchRecipes"} /\ resp.status = 200

IsSearchSuccess == resp.op = "searchRecipes" /\ resp.status = 200

\* C5: in every successful list or search response the pagination block has
\* totalPages = ceil(total / limit), hasNext = (currentPage < totalPages) and
\* hasPrev = (currentPage > 1) on the values of that block, and a total of 0
\* gives totalPages 0 with hasNext and hasPrev false.  (hasPrev = (currentPage
\* > 1) makes hasPrev true on a later page of an empty result, so the last
\* part is stated of the pages up to the first, where the two parts agree.)
C5_PaginationBlockConsistent ==
  IsReadSuccess =>
    LET p == resp.pagination IN
    /\ IsNum(p.currentPage) /\ IsNum(p.limit) /\ IsNum(p.totalPages)
    /\ p.limit.v # 0
    /\ p.totalPages.v = CeilDiv(p.total.v, p.limit.v)
    /\ p.hasNext = (p.currentPage.v < p.totalPages.v)
    /\ p.hasPrev = (p.currentPage.v > 1)
    /\ p.total.v = 0 => (p.totalPages.v = 0 /\ ~ p.hasNext)
    /\ (p.total.v = 0 /\ p.currentPage.v <= 1) => ~ p.hasPrev

\* a paging parameter that is given but is not a positive number
NotPositive(query, f) ==
  Has(query, f) /\ (parseIntStr(query[f]) = NaN \/ parseIntStr(query[f]).v <= 0)

\* C6: the list endpoint never fails on its paging parameters: a negative,
\* zero or non-numeric page or limit is replaced by the default (1 and 10),
\* and the page and limit used and reported are positive integers.
C6_ListPagingCoerced ==
  resp.op = "getAllRecipes" =>
    /\ resp.status = 200
    /\ IsNum(resp.pagination.currentPage) /\ resp.pagination.currentPage.v >= 1
    /\ IsNum(resp.pagination.limit) /\ resp.pagination.limit.v >= 1
    /\ NotPositive(resp.query, "page") => resp.pagination.currentPage.v = DefaultPage
    /\ NotPositive(resp.query, "limit") => resp.pagination.limit.v = DefaultLimit
    /\ resp.skip.v = (resp.pagination.currentPage.v - 1) * resp.pagination.limit.v

\* the tags a request asks for: the comma-separated pieces, which the search
\* endpoint trims and lower-cases
RequestedTags ==
  LET parts == split(resp.query.tags) IN
  IF resp.op = "searchRecipes" THEN {toLowerCase(trim(parts[i])) : i \in 1..Len(parts)}
  ELSE Range(parts)

\* the clauses of the filter other than those on the given fields
OtherClauses(fs) == Fields(resp.filter, (DOMAIN resp.filter) \ fs)

HasTagFilter == Has(resp.query, "tags") /\ resp.query.tags # <<>>

\* C7: in the list and the search endpoint, under a tags parameter, a record
\* satisfies the tag filter exactly when one of the requested tags is among
\* its tags: the total counts the records that overlap (and pass the other
\* clauses), and every returned record is one of them.
C7_TagFilterIntersects ==
  (IsReadSuccess /\ HasTagFilter) =>
    LET overlap == {id \in DOMAIN recipes :
                      /\ Range(recipes[id].tags) \cap RequestedTags # {}
                      /\ Matches(recipes[id], OtherClauses({"tags"}))}
    IN /\ resp.pagination.total.v = Cardinality(overlap)
       /\ \A i \in 1..Len(resp.data) : resp.data[i]._id \in overlap

\* the list endpoint, asked for quick or spicy, returns a record tagged
\* vegan and quick: an overlap that is neither a subset nor an exact match
C7_Witness ==
  /\ IsReadSuccess /\ HasTagFilter
  /\ RequestedTags = {Quick, Spicy}
  /\ \E i \in 1..Len(resp.data) : resp.data[i].tags = <<Vegan, Quick>>
  /\ \E id \in DOMAIN recipes : recipes[id].tags = <<Spicy>>

\* the parameter is given and Number() makes a number of it
IsNumeric(query, f) ==
  Has(query, f) /\ query[f] # <<>> /\ ToNumberStr(query[f]) # NaN

\* C8: in search, a numeric cookingTimeMax = N keeps exactly the records with
\* cookingTime <= N and a numeric servingsMin = M those with servings >= M
\* (among the records that pass the other clauses); a value that is not
\* numeric adds no clause.
C8_RangeClauses ==
  IsSearchSuccess =>
    LET q == resp.query
        expected ==
          {id \in DOMAIN recipes :
             /\ Matches(recipes[id], OtherClauses({"cookingTime", "servings"}))
             /\ IsNumeric(q, "cookingTimeMax") =>
                  Lte(recipes[id], "cookingTime", ToNumberStr(q.cookingTimeMax).v)
             /\ IsNumeric(q, "servingsMin") =>
                  Gte(recipes[id], "servings", ToNumberStr(q.servingsMin).v)}
    IN /\ resp.pagination.total.v = Cardinality(expected)
       /\ \A i \in 1..Len(resp.data) : resp.data[i]._id \in expected

\* C9: the search response echoes the effective parameters: a filter is
\* echoed exactly when its clause is in the query, with the value the clause
\* uses.
C9_EchoIsEffective ==
  IsSearchSuccess =>
    LET e == resp.searchQuery
        f == resp.filter
    IN /\ Has(e, "textSearch") <=> Has(f, "text")
       /\ Has(e, "ingredient") <=> Has(f, "ingredients")
       /\ Has(e, "difficulty") <=> Has(f, "difficulty")
       /\ Has(e, "tags") <=> Has(f, "tags")
       /\ Has(e, "cookingTimeMax") <=> Has(f, "cookingTime")
       /\ Has(e, "servingsMin") <=> Has(f, "servings")
       /\ Has(e, "difficulty") => e.difficulty = f.difficulty
       /\ Has(e, "tags") => split(e.tags) = f.tags
       /\ Has(e, "cookingTimeMax") => ToNumberStr(e.cookingTimeMax) = f.cookingTime
       /\ Has(e, "servingsMin") => ToNumberStr(e.servingsMin) = f.servings

EchoNames ==
  [q |-> "textSearch", ingredient |-> "ingredient", tags |-> "tags",
   cookingTimeMax |-> "cookingTimeMax", servingsMin |-> "servingsMin"]

\* C9 as amended: the search response echoes every search parameter as it
\* was received, and null for a parameter that is absent or empty, whether
\* or not its filter was applied.
C9_EchoIsRaw ==
  IsSearchSuccess =>
    LET e == resp.searchQuery
        q == resp.query
    IN /\ \A f \in DOMAIN EchoNames :
            IF Has(q, f) /\ q[f] # <<>>
            THEN Has(e, EchoNames[f]) /\ e[EchoNames[f]] = q[f]
            ELSE ~ Has(e, EchoNames[f])
       /\ IF Has(q, "difficulty") /\ q.difficulty # ""
          THEN Has(e, "difficulty") /\ e.difficulty = q.difficulty
          ELSE ~ Has(e, "difficulty")

\* a difficulty outside the enumeration is echoed although its clause was
\* dropped
C9_Witness ==
  /\ IsSearchSuccess
  /\ Has(resp.query, "difficulty") /\ resp.query.difficulty \notin Difficulties
  /\ ~ Has(resp.filter, "difficulty")
  /\ Has(resp.searchQuery, "difficulty")
  /\ resp.searchQuery.difficulty = resp.query.difficulty
\* the records in the store that the filter of the response matches, from
\* its skip offset on
Remaining(total, skip) == IF total > skip THEN total - skip ELSE 0

\* C12: in a successful list or search response the page and the total
\* describe one state of the collection, also when creates and deletes are
\* served while the request is in flight: the number of records returned is
\* at most the total, and at most the total less the skip offset (no record
\* when the offset is past the total).
C12_PageWithinTotal ==
  IsReadSuccess =>
    /\ resp.count <= resp.pagination.total.v
    /\ resp.count <= Remaining(resp.pagination.total.v, resp.skip.v)

====
